---- MODULE Spec2Model ----
(***************************************************************************)
(* A model of the gopengl demo: main() of the textured-cube program, its   *)
(* helpers newProgram, compileShader and newTexture, the vertex table and  *)
(* the render loop.  The GLFW / OpenGL / image libraries are the           *)
(* environment: every outcome a call can produce is a nondeterministic     *)
(* choice of the action that makes the call.                               *)
(*                                                                         *)
(* Strings are modelled as sequences of tokens, float32 coordinates as     *)
(* twice their value (-0.5 is -1, 1.0 is 2), uint32 values as a pair of    *)
(* 16-bit halves <<hi, lo>>.                                               *)
(***************************************************************************)
EXTENDS Integers, Sequences, FiniteSets, TLC

\* ------------------------------------------------------------------ bounds

\* Render-loop iterations explored before the model stops starting frames.
MaxFrames == 3

\* Largest clock reading glfw.GetTime returns in the model (ticks).
MaxTime == 2

\* Largest image width the decoder yields in the model (pixels).
MaxImageDim == 2

\* ------------------------------------------------------------ vocabulary

Nil == <<>>

NUL == "\\x00"

VertexShaderFile == "vertex.glsl"

FragmentShaderFile == "fragment.glsl"

VERTEX_SHADER == "VERTEX_SHADER"

FRAGMENT_SHADER == "FRAGMENT_SHADER"

\* Info-log texts the driver may produce (the empty log included).
DriverLogs == { <<>>, <<"syntax", "error">> }

AttribNames == {"position", "color", "texCoord"}

UniformNames == {"model", "view", "proj"}

\* The location the linker gives an active name; an inactive name has none.
Location(name) ==
    CASE name = "position" -> 0
      [] name = "color"    -> 1
      [] name = "texCoord" -> 2
      [] name = "model"    -> 0
      [] name = "view"     -> 1
      [] name = "proj"     -> 2

\* gl.GetAttribLocation / gl.GetUniformLocation: -1 for a name that is not an
\* active attribute / uniform of the linked program.
GetLocation(active, name) == IF name \in active THEN Location(name) ELSE -1

\* Go's uint32(x) of an int32 x, as <<high 16 bits, low 16 bits>>.
U32(x) == << ((x \div 65536) + 65536) % 65536, x % 65536 >>

\* The index limit of glVertexAttribPointer / glEnableVertexAttribArray
\* (GL_MAX_VERTEX_ATTRIBS): a larger index is rejected with GL_INVALID_VALUE.
MaxVertexAttribs == 16

ValidAttribIndex(idx) == idx[1] = 0 /\ idx[2] < MaxVertexAttribs

Last(s) == s[Len(s)]

IsPrefix(s, t) == Len(s) <= Len(t) /\ s = SubSeq(t, 1, Len(s))

\* The vertex table: 8 floats a record (position 3, color 3, texCoord 2), each
\* coordinate written as twice its value.
vertices ==
    <<-1, -1, -1,  2,  2,  2,  0,  0>>
 \o << 1, -1, -1,  2,  2,  2,  2,  0>>
 \o << 1,  1, -1,  2,  2,  2,  2,  2>>
 \o << 1,  1, -1,  2,  2,  2,  2,  2>>
 \o <<-1,  1, -1,  2,  2,  2,  0,  2>>
 \o <<-1, -1, -1,  2,  2,  2,  0,  0>>
 \o <<-1, -1,  1,  2,  2,  2,  0,  0>>
 \o << 1, -1,  1,  2,  2,  2,  2,  0>>
 \o << 1,  1,  1,  2,  2,  2,  2,  2>>
 \o << 1,  1,  1,  2,  2,  2,  2,  2>>
 \o <<-1,  1,  1,  2,  2,  2,  0,  2>>
 \o <<-1, -1,  1,  2,  2,  2,  0,  0>>
 \o <<-1,  1,  1,  2,  2,  2,  2,  0>>
 \o <<-1,  1, -1,  2,  2,  2,  2,  2>>
 \o <<-1, -1, -1,  2,  2,  2,  0,  2>>
 \o <<-1, -1, -1,  2,  2,  2,  0,  2>>
 \o <<-1, -1,  1,  2,  2,  2,  0,  0>>
 \o <<-1,  1,  1,  2,  2,  2,  2,  0>>
 \o << 1,  1,  1,  2,  2,  2,  2,  0>>
 \o << 1,  1, -1,  2,  2,  2,  2,  2>>
 \o << 1, -1, -1,  2,  2,  2,  0,  2>>
 \o << 1, -1, -1,  2,  2,  2,  0,  2>>
 \o << 1, -1,  1,  2,  2,  2,  0,  0>>
 \o << 1,  1,  1,  2,  2,  2,  2,  0>>
 \o <<-1, -1, -1,  2,  2,  2,  0,  2>>
 \o << 1, -1, -1,  2,  2,  2,  2,  2>>
 \o << 1, -1,  1,  2,  2,  2,  2,  0>>
 \o << 1, -1,  1,  2,  2,  2,  2,  0>>
 \o <<-1, -1,  1,  2,  2,  2,  0,  0>>
 \o <<-1, -1, -1,  2,  2,  2,  0,  2>>
 \o <<-1,  1, -1,  2,  2,  2,  0,  2>>
 \o << 1,  1, -1,  2,  2,  2,  2,  2>>
 \o << 1,  1,  1,  2,  2,  2,  2,  0>>
 \o << 1,  1,  1,  2,  2,  2,  2,  0>>
 \o <<-1,  1,  1,  2,  2,  2,  0,  0>>
 \o <<-1,  1, -1,  2,  2,  2,  0,  2>>
 \o <<-2, -2, -1,  0,  0,  0,  0,  0>>
 \o << 2, -2, -1,  0,  0,  0,  2,  0>>
 \o << 2,  2, -1,  0,  0,  0,  2,  2>>
 \o << 2,  2, -1,  0,  0,  0,  2,  2>>
 \o <<-2,  2, -1,  0,  0,  0,  0,  2>>
 \o <<-2, -2, -1,  0,  0,  0,  0,  0>>

\* INFO_LOG_LENGTH: 0 when there is no log, else the length of the text and
\* its terminator.
InfoLogLength(text) == IF text = <<>> THEN 0 ELSE Len(text) + 1

\* The buffer a Get*InfoLog call fills: strings.Repeat("\x00", logLength+1)
\* with at most bufSize-1 characters of the driver's text and a terminator
\* written into it.
InfoLog(text, bufSize) ==
    LET logLength == InfoLogLength(text)
        written   == IF bufSize < 1 THEN 0
                     ELSE IF bufSize - 1 < Len(text) THEN bufSize - 1
                     ELSE Len(text)
    IN  [i \in 1..(logLength + 1) |-> IF i <= written THEN text[i] ELSE NUL]

\* compileShader without the COMPILE_STATUS test: the shader is returned
\* whatever the driver reports.
compileShader_IgnoreStatus(sourceFile, shaderType, readOK, name, status, text) ==
    IF ~readOK
    THEN [shader |-> 0, err |-> <<"open ", sourceFile>>, created |-> 0,
          status |-> "read", info |-> <<>>,
          ops |-> << <<"ReadFile", sourceFile>> >>]
    ELSE [shader |-> name, err |-> Nil, created |-> name,
          status |-> IF name # 0 /\ status THEN "ok" ELSE "failed",
          info |-> IF name = 0 THEN <<>> ELSE text,
          ops |-> << <<"ReadFile", sourceFile>>,
                     <<"CompileShader", shaderType>> >>]

\* compileShader with an error that leaves the info log out.
compileShader_NoLog(sourceFile, shaderType, readOK, name, status, text) ==
    IF ~readOK
    THEN [shader |-> 0, err |-> <<"open ", sourceFile>>, created |-> 0,
          status |-> "read", info |-> <<>>,
          ops |-> << <<"ReadFile", sourceFile>> >>]
    ELSE LET ok  == name # 0 /\ status
             txt == IF name = 0 THEN <<>> ELSE text
             ops == << <<"ReadFile", sourceFile>>,
                       <<"CompileShader", shaderType>> >>
         IN  IF ~ok
             THEN [shader |-> 0,
                   err |-> <<"failed to compile ", sourceFile, ": ">>,
                   created |-> name, status |-> "failed", info |-> txt,
                   ops |-> ops]
             ELSE [shader |-> name, err |-> Nil, created |-> name,
                   status |-> "ok", info |-> txt, ops |-> ops]

\* compileShader(sourceFile, shaderType) under the outcomes of its calls:
\* readOK (ioutil.ReadFile), name (gl.CreateShader: 0 on failure), status
\* (COMPILE_STATUS) and text (the driver's info log).  With name 0 the
\* Get* calls are rejected and leave status at 0 and logLength at 0.
\* Yields the returned (shader, err), the object created, the info log the
\* driver holds for it and the operations performed.
compileShader(sourceFile, shaderType, readOK, name, status, text) ==
    IF ~readOK
    THEN [shader |-> 0, err |-> <<"open ", sourceFile>>, created |-> 0,
          status |-> "read", info |-> <<>>,
          ops |-> << <<"ReadFile", sourceFile>> >>]
    ELSE LET ok  == name # 0 /\ status
             txt == IF name = 0 THEN <<>> ELSE text
             log == InfoLog(txt, InfoLogLength(txt))
             ops == << <<"ReadFile", sourceFile>>,
                       <<"CompileShader", shaderType>> >>
         IN  IF ~ok
             THEN [shader |-> 0,
                   err |-> <<"failed to compile ", sourceFile, ": ">> \o log,
                   created |-> name, status |-> "failed", info |-> txt,
                   ops |-> ops]
             ELSE [shader |-> name, err |-> Nil, created |-> name,
                   status |-> "ok", info |-> txt, ops |-> ops]

\* image.NewRGBA(r): the stride of the image it allocates, for width w.
NewRGBAStride(w) == 4 * w

\* ------------------------------------------------------------------ state

VARIABLES
    pc,              \* position of main()
    glfwUp,          \* glfw.Init succeeded and glfw.Terminate has not run
    deferred,        \* defer glfw.Terminate() is registered
    terminateCalls,  \* number of glfw.Terminate calls
    closeFlag,       \* the window's close flag (window.ShouldClose)
    nextName,        \* next shader / program object name of the driver
    shaderLive,      \* shader objects created and not passed to DeleteShader
    programLive,     \* program objects created and not deleted
    attached,        \* shaders attached to the program object
    deleteLog,       \* arguments of the DeleteShader calls, in order
    compileStatus,   \* COMPILE_STATUS of each kind's compilation
    linkStatus,      \* LINK_STATUS of the link
    infoLog,         \* info log the driver holds for the last object built
    vertexShader,    \* newProgram's local
    fragmentShader,  \* newProgram's local
    ret,             \* (value, error) returned by newProgram / newTexture
    activeAttribs,   \* active attribute names of the linked program
    activeUniforms,  \* active uniform names of the linked program
    program,         \* main's local
    currentProgram,  \* program object installed by UseProgram
    vao,             \* bound vertex array object
    bufferSize,      \* bytes of the ARRAY_BUFFER data store
    attribs,         \* attribute arrays of the vertex array object
    attribIdx,       \* main's posAttrib, colAttrib, texAttrib
    texture,         \* texture bound to TEXTURE_2D of unit TEXTURE0, and
                     \* whether an image has been uploaded to it
    uniLoc,          \* main's uniModel, uniView, uniProj
    uniforms,        \* uniform values of the program object
    calls,           \* number of calls of each start-up operation
    startTime,       \* main's local
    now,             \* last reading of glfw.GetTime
    frames,          \* completed iterations of the render loop
    frameOps,        \* calls made in the current iteration, in order
    counts,          \* number of calls of each render-loop operation
    drawn,           \* (first, count) of every DrawArrays call
    steps,           \* operations performed, in order
    failed,          \* the start-up operation that failed
    panicVal,        \* value of the panic that ended the process
    nilImageUsed     \* img.Bounds() was called on the nil image

procVars == <<glfwUp, deferred, terminateCalls>>

shaderVars == <<nextName, shaderLive, programLive, attached, deleteLog,
                compileStatus, linkStatus, infoLog, vertexShader,
                fragmentShader, activeAttribs, activeUniforms>>

setupVars == <<program, currentProgram, vao, bufferSize, attribs, attribIdx,
               texture, uniLoc, calls, startTime>>

loopVars == <<frames, frameOps, counts, drawn>>

vars == <<pc, procVars, closeFlag, shaderVars, ret, setupVars, uniforms, now,
          loopVars, steps, failed, panicVal, nilImageUsed>>

Init ==
    /\ pc = "glfwInit"
    /\ glfwUp = FALSE
    /\ deferred = FALSE
    /\ terminateCalls = 0
    /\ closeFlag = FALSE
    /\ nextName = 1
    /\ shaderLive = {}
    /\ programLive = {}
    /\ attached = {}
    /\ deleteLog = <<>>
    /\ compileStatus = [k \in {VERTEX_SHADER, FRAGMENT_SHADER} |-> "none"]
    /\ linkStatus = "none"
    /\ infoLog = <<>>
    /\ vertexShader = 0
    /\ fragmentShader = 0
    /\ ret = [val |-> 0, err |-> Nil]
    /\ activeAttribs = {}
    /\ activeUniforms = {}
    /\ program = 0
    /\ currentProgram = 0
    /\ vao = 0
    /\ bufferSize = 0
    /\ attribs = {}
    /\ attribIdx = [a \in AttribNames |-> U32(0)]
    /\ texture = [name |-> 0, uploaded |-> FALSE]
    /\ uniLoc = [u \in UniformNames |-> 0]
    /\ uniforms = [u \in UniformNames |-> Nil]
    /\ calls = [newProgram |-> 0, UseProgram |-> 0, BufferData |-> 0,
                VertexAttribPointer |-> 0, BindTexture |-> 0,
                view |-> 0, proj |-> 0]
    /\ startTime = 0
    /\ now = 0
    /\ frames = 0
    /\ frameOps = <<>>
    /\ counts = [Clear |-> 0, model |-> 0, DrawArrays |-> 0,
                 SwapBuffers |-> 0, PollEvents |-> 0]
    /\ drawn = {}
    /\ steps = <<>>
    /\ failed = Nil
    /\ panicVal = Nil
    /\ nilImageUsed = FALSE

\* panic(e) in main: the deferred glfw.Terminate runs, the process ends.
Abort(e) ==
    /\ pc' = "panicked"
    /\ panicVal' = e
    /\ terminateCalls' = terminateCalls + (IF deferred THEN 1 ELSE 0)
    /\ glfwUp' = (IF deferred THEN FALSE ELSE glfwUp)
    /\ UNCHANGED deferred

\* ------------------------------------------------- main: library start-up

\* if err := glfw.Init(); err != nil { panic(err) }; defer glfw.Terminate()
GlfwInit ==
    /\ pc = "glfwInit"
    /\ steps' = Append(steps, <<"glfw.Init">>)
    /\ \E ok \in BOOLEAN :
         IF ok
         THEN /\ glfwUp' = TRUE
              /\ deferred' = TRUE
              /\ pc' = "createWindow"
              /\ UNCHANGED <<terminateCalls, failed, panicVal>>
         ELSE /\ failed' = <<"glfw.Init">>
              /\ Abort(<<"glfw.Init">>)
    /\ UNCHANGED <<closeFlag, shaderVars, ret, setupVars, uniforms, now,
                   loopVars, nilImageUsed>>

\* The window hints, glfw.CreateWindow and window.MakeContextCurrent.
CreateWindow ==
    /\ pc = "createWindow"
    /\ steps' = Append(steps, <<"CreateWindow">>)
    /\ \E ok \in BOOLEAN :
         IF ok
         THEN /\ pc' = "glInit"
              /\ UNCHANGED <<procVars, failed, panicVal>>
         ELSE /\ failed' = <<"CreateWindow">>
              /\ Abort(<<"CreateWindow">>)
    /\ UNCHANGED <<closeFlag, shaderVars, ret, setupVars, uniforms, now,
                   loopVars, nilImageUsed>>

\* if err := gl.Init(); err != nil { panic(err) }
GlInit ==
    /\ pc = "glInit"
    /\ steps' = Append(steps, <<"gl.Init">>)
    /\ \E ok \in BOOLEAN :
         IF ok
         THEN /\ pc' = "compileVertex"
              /\ UNCHANGED <<procVars, failed, panicVal>>
         ELSE /\ failed' = <<"gl.Init">>
              /\ Abort(<<"gl.Init">>)
    /\ UNCHANGED <<closeFlag, shaderVars, ret, setupVars, uniforms, now,
                   loopVars, nilImageUsed>>

\* ------------------------------------------------------------- newProgram

\* newProgram: vertexShader, err := compileShader(vertexShaderFile,
\* gl.VERTEX_SHADER); if err != nil { return 0, err }
CompileVertexShader ==
    /\ pc = "compileVertex"
    /\ \E readOK \in BOOLEAN, created \in BOOLEAN, status \in BOOLEAN,
          text \in DriverLogs :
         LET r == compileShader(VertexShaderFile, VERTEX_SHADER, readOK,
                                IF created THEN nextName ELSE 0, status, text)
         IN  /\ steps' = steps \o r.ops
             /\ compileStatus' = [compileStatus EXCEPT ![VERTEX_SHADER] = r.status]
             /\ infoLog' = r.info
             /\ shaderLive' = shaderLive \cup (IF r.created # 0 THEN {r.created} ELSE {})
             /\ nextName' = IF r.created # 0 THEN nextName + 1 ELSE nextName
             /\ vertexShader' = r.shader
             /\ IF r.err # Nil
                THEN /\ ret' = [val |-> 0, err |-> r.err]
                     /\ failed' = Last(r.ops)
                     /\ pc' = "checkProgram"
                ELSE /\ pc' = "compileFragment"
                     /\ UNCHANGED <<ret, failed>>
    /\ calls' = [calls EXCEPT !.newProgram = @ + 1]
    /\ UNCHANGED <<procVars, closeFlag, programLive, attached, deleteLog,
                   linkStatus, fragmentShader, activeAttribs, activeUniforms,
                   program, currentProgram, vao, bufferSize, attribs,
                   attribIdx, texture, uniLoc, startTime, uniforms, now,
                   loopVars, panicVal, nilImageUsed>>

\* newProgram: fragmentShader, err := compileShader(fragmentShaderFile,
\* gl.FRAGMENT_SHADER); if err != nil { return 0, err }
CompileFragmentShader ==
    /\ pc = "compileFragment"
    /\ \E readOK \in BOOLEAN, created \in BOOLEAN, status \in BOOLEAN,
          text \in DriverLogs :
         LET r == compileShader(FragmentShaderFile, FRAGMENT_SHADER, readOK,
                                IF created THEN nextName ELSE 0, status, text)
         IN  /\ steps' = steps \o r.ops
             /\ compileStatus' = [compileStatus EXCEPT ![FRAGMENT_SHADER] = r.status]
             /\ infoLog' = r.info
             /\ shaderLive' = shaderLive \cup (IF r.created # 0 THEN {r.created} ELSE {})
             /\ nextName' = IF r.created # 0 THEN nextName + 1 ELSE nextName
             /\ fragmentShader' = r.shader
             /\ IF r.err # Nil
                THEN /\ ret' = [val |-> 0, err |-> r.err]
                     /\ failed' = Last(r.ops)
                     /\ pc' = "checkProgram"
                ELSE /\ pc' = "link"
                     /\ UNCHANGED <<ret, failed>>
    /\ UNCHANGED <<procVars, closeFlag, programLive, attached, deleteLog,
                   linkStatus, vertexShader, activeAttribs, activeUniforms,
                   setupVars, uniforms, now, loopVars, panicVal, nilImageUsed>>

\* newProgram from gl.CreateProgram to its return: attach, link, read
\* LINK_STATUS, return the log as an error or delete the shaders and return
\* the program.  With name 0 (CreateProgram failed) every call on it is
\* rejected and status stays 0.
LinkProgram ==
    /\ pc = "link"
    /\ \E created \in BOOLEAN, status \in BOOLEAN, text \in DriverLogs,
          aa \in SUBSET AttribNames, au \in SUBSET UniformNames :
         LET name == IF created THEN nextName ELSE 0
             ok   == name # 0 /\ status
             txt  == IF name = 0 THEN <<>> ELSE text
             log  == InfoLog(txt, InfoLogLength(txt))
         IN  /\ nextName' = IF name # 0 THEN nextName + 1 ELSE nextName
             /\ programLive' = programLive \cup (IF name # 0 THEN {name} ELSE {})
             /\ attached' = IF name # 0 THEN {vertexShader, fragmentShader} ELSE attached
             /\ linkStatus' = IF ok THEN "ok" ELSE "failed"
             /\ infoLog' = txt
             /\ IF ~ok
                THEN /\ ret' = [val |-> 0, err |-> <<"failed to link program: ">> \o log]
                     /\ failed' = <<"LinkProgram">>
                     /\ steps' = steps \o << <<"CreateProgram">>, <<"LinkProgram">> >>
                     /\ UNCHANGED <<shaderLive, deleteLog, activeAttribs, activeUniforms>>
                ELSE /\ ret' = [val |-> name, err |-> Nil]
                     /\ shaderLive' = (shaderLive \ {vertexShader}) \ {fragmentShader}
                     /\ deleteLog' = deleteLog \o <<vertexShader, fragmentShader>>
                     /\ activeAttribs' = aa
                     /\ activeUniforms' = au
                     /\ steps' = steps \o << <<"CreateProgram">>, <<"LinkProgram">>,
                                            <<"DeleteShader", vertexShader>>,
                                            <<"DeleteShader", fragmentShader>> >>
                     /\ UNCHANGED failed
    /\ pc' = "checkProgram"
    /\ UNCHANGED <<procVars, closeFlag, compileStatus, vertexShader,
                   fragmentShader, setupVars, uniforms, now, loopVars,
                   panicVal, nilImageUsed>>

\* main without the test of newProgram's error.
CheckProgram_IgnoreErr ==
    /\ pc = "checkProgram"
    /\ program' = ret.val
    /\ currentProgram' = ret.val
    /\ calls' = [calls EXCEPT !.UseProgram = @ + 1]
    /\ steps' = Append(steps, <<"UseProgram">>)
    /\ pc' = "buffers"
    /\ UNCHANGED <<procVars, panicVal>>
    /\ UNCHANGED <<closeFlag, shaderVars, ret, vao, bufferSize, attribs,
                   attribIdx, texture, uniLoc, startTime, uniforms, now,
                   loopVars, failed, nilImageUsed>>

\* main: program, err := newProgram(...); if err != nil { panic(err) };
\* gl.UseProgram(program)
CheckProgram ==
    /\ pc = "checkProgram"
    /\ IF ret.err # Nil
       THEN /\ Abort(ret.err)
            /\ UNCHANGED <<program, currentProgram, calls, steps>>
       ELSE /\ program' = ret.val
            /\ currentProgram' = ret.val
            /\ calls' = [calls EXCEPT !.UseProgram = @ + 1]
            /\ steps' = Append(steps, <<"UseProgram">>)
            /\ pc' = "buffers"
            /\ UNCHANGED <<procVars, panicVal>>
    /\ UNCHANGED <<closeFlag, shaderVars, ret, vao, bufferSize, attribs,
                   attribIdx, texture, uniLoc, startTime, uniforms, now,
                   loopVars, failed, nilImageUsed>>

\* ------------------------------------------------------ main: scene set-up

\* The upload with the size in floats instead of bytes.
SetupBuffers_SizeInFloats ==
    /\ pc = "buffers"
    /\ vao' = 1
    /\ bufferSize' = Len(vertices)
    /\ calls' = [calls EXCEPT !.BufferData = @ + 1]
    /\ steps' = Append(steps, <<"BufferData">>)
    /\ pc' = "posAttrib"
    /\ UNCHANGED <<procVars, closeFlag, shaderVars, ret, program,
                   currentProgram, attribs, attribIdx, texture, uniLoc,
                   startTime, uniforms, now, loopVars, failed, panicVal,
                   nilImageUsed>>

\* gl.GenVertexArrays, gl.BindVertexArray, gl.GenBuffers, gl.BindBuffer and
\* gl.BufferData(gl.ARRAY_BUFFER, len(vertices)*4, gl.Ptr(vertices), ...)
SetupBuffers ==
    /\ pc = "buffers"
    /\ vao' = 1
    /\ bufferSize' = Len(vertices) * 4
    /\ calls' = [calls EXCEPT !.BufferData = @ + 1]
    /\ steps' = Append(steps, <<"BufferData">>)
    /\ pc' = "posAttrib"
    /\ UNCHANGED <<procVars, closeFlag, shaderVars, ret, program,
                   currentProgram, attribs, attribIdx, texture, uniLoc,
                   startTime, uniforms, now, loopVars, failed, panicVal,
                   nilImageUsed>>

\* xAttrib := uint32(gl.GetAttribLocation(program, name));
\* gl.VertexAttribPointer(xAttrib, size, gl.FLOAT, false, 8*4, offset);
\* gl.EnableVertexAttribArray(xAttrib).  The driver rejects an index that is
\* not below GL_MAX_VERTEX_ATTRIBS and changes nothing.
SetAttrib(name, size, offset) ==
    LET idx == U32(GetLocation(activeAttribs, name))
    IN  /\ attribIdx' = [attribIdx EXCEPT ![name] = idx]
        /\ attribs' =
             IF ValidAttribIndex(idx)
             THEN {a \in attribs : a.index # idx[2]} \cup
                  {[index |-> idx[2], size |-> size, stride |-> 8 * 4,
                    offset |-> offset, enabled |-> TRUE]}
             ELSE attribs
        /\ calls' = [calls EXCEPT !.VertexAttribPointer = @ + 1]
        /\ steps' = Append(steps, <<"VertexAttribPointer", name>>)
        /\ UNCHANGED <<procVars, closeFlag, shaderVars, ret, program,
                       currentProgram, vao, bufferSize, texture, uniLoc,
                       startTime, uniforms, now, loopVars, failed, panicVal,
                       nilImageUsed>>

PosAttrib ==
    /\ pc = "posAttrib"
    /\ SetAttrib("position", 3, 0)
    /\ pc' = "colAttrib"

ColAttrib ==
    /\ pc = "colAttrib"
    /\ SetAttrib("color", 3, 3 * 4)
    /\ pc' = "texAttrib"

TexAttrib ==
    /\ pc = "texAttrib"
    /\ SetAttrib("texCoord", 2, 6 * 4)
    /\ pc' = "texture"

\* if _, err := newTexture("kitten.png", gl.TEXTURE0); err != nil { panic(err) }
\* with the whole of newTexture: os.Open, image.Decode (its error is
\* assigned and never read), image.NewRGBA(img.Bounds()), the stride test,
\* draw.Draw and the texture upload.  A failed decode yields the nil image,
\* and img.Bounds() on it is a nil dereference: a run-time panic.
NewTexture ==
    /\ pc = "texture"
    /\ \E openOK \in BOOLEAN, decodeOK \in BOOLEAN, w \in 0..MaxImageDim :
         IF ~openOK
         THEN /\ ret' = [val |-> 0, err |-> <<"open ", "kitten.png">>]
              /\ failed' = <<"os.Open">>
              /\ steps' = Append(steps, <<"os.Open">>)
              /\ Abort(<<"open ", "kitten.png">>)
              /\ UNCHANGED <<texture, calls, nilImageUsed>>
         ELSE IF ~decodeOK
         THEN /\ nilImageUsed' = TRUE
              /\ failed' = <<"image.Decode">>
              /\ steps' = steps \o << <<"os.Open">>, <<"image.Decode">> >>
              /\ Abort(<<"nil pointer dereference">>)
              /\ UNCHANGED <<ret, texture, calls>>
         ELSE IF NewRGBAStride(w) # w * 4
         THEN /\ ret' = [val |-> 0, err |-> <<"unsupported stride">>]
              /\ failed' = <<"NewRGBA">>
              /\ steps' = steps \o << <<"os.Open">>, <<"image.Decode">>,
                                     <<"NewRGBA">> >>
              /\ Abort(<<"unsupported stride">>)
              /\ UNCHANGED <<texture, calls, nilImageUsed>>
         ELSE /\ ret' = [val |-> 1, err |-> Nil]
              /\ texture' = [name |-> 1, uploaded |-> TRUE]
              /\ calls' = [calls EXCEPT !.BindTexture = @ + 1]
              /\ steps' = steps \o << <<"os.Open">>, <<"image.Decode">>,
                                     <<"NewRGBA">>, <<"TexImage2D">> >>
              /\ pc' = "uniforms"
              /\ UNCHANGED <<procVars, failed, panicVal, nilImageUsed>>
    /\ UNCHANGED <<closeFlag, shaderVars, program, currentProgram, vao,
                   bufferSize, attribs, attribIdx, uniLoc, startTime,
                   uniforms, now, loopVars>>

\* gl.UniformMatrix4fv(loc, 1, false, &m[0]) on the program in use: location
\* -1 is ignored by the driver.
UniformMatrix4fv(u, loc, m) ==
    [n \in UniformNames |->
        IF n \in activeUniforms /\ loc = Location(n) THEN m ELSE u[n]]

\* uniModel, uniView, uniProj := gl.GetUniformLocation(...); the view and
\* projection matrices are uploaded.
SetupUniforms ==
    /\ pc = "uniforms"
    /\ LET l == [n \in UniformNames |-> GetLocation(activeUniforms, n)]
       IN  /\ uniLoc' = l
           /\ uniforms' = UniformMatrix4fv(
                              UniformMatrix4fv(uniforms, l["view"], <<"LookAt">>),
                              l["proj"], <<"Perspective">>)
    /\ calls' = [calls EXCEPT !.view = @ + 1, !.proj = @ + 1]
    /\ steps' = steps \o << <<"UniformMatrix4fv", "view">>,
                           <<"UniformMatrix4fv", "proj">> >>
    /\ pc' = "startClock"
    /\ UNCHANGED <<procVars, closeFlag, shaderVars, ret, program,
                   currentProgram, vao, bufferSize, attribs, attribIdx,
                   texture, startTime, now, loopVars, failed, panicVal,
                   nilImageUsed>>

\* startTime := glfw.GetTime(); gl.Enable(gl.DEPTH_TEST); gl.ClearColor(...)
StartClock ==
    /\ pc = "startClock"
    /\ \E t \in now..MaxTime :
         /\ now' = t
         /\ startTime' = t
    /\ steps' = Append(steps, <<"Enable">>)
    /\ pc' = "loopTest"
    /\ UNCHANGED <<procVars, closeFlag, shaderVars, ret, program,
                   currentProgram, vao, bufferSize, attribs, attribIdx,
                   texture, uniLoc, calls, uniforms, loopVars, failed,
                   panicVal, nilImageUsed>>

\* ---------------------------------------------------- main: the render loop

InLoop == pc \in {"loopTest", "clear", "model", "draw", "swap", "poll"}

\* The loop test without the close flag: for { ... }
LoopTest_IgnoreClose ==
    /\ pc = "loopTest"
    /\ frames < MaxFrames
    /\ pc' = "clear"
    /\ frameOps' = <<>>
    /\ UNCHANGED procVars
    /\ UNCHANGED <<closeFlag, shaderVars, ret, setupVars, uniforms, now,
                   frames, counts, drawn, steps, failed, panicVal,
                   nilImageUsed>>

\* for !window.ShouldClose() { ... }: a set close flag ends the loop and
\* main returns, which runs the deferred glfw.Terminate.
LoopTest ==
    /\ pc = "loopTest"
    /\ closeFlag \/ frames < MaxFrames
    /\ IF closeFlag
       THEN /\ pc' = "exited"
            /\ terminateCalls' = terminateCalls + 1
            /\ glfwUp' = FALSE
            /\ UNCHANGED <<deferred, frameOps>>
       ELSE /\ pc' = "clear"
            /\ frameOps' = <<>>
            /\ UNCHANGED procVars
    /\ UNCHANGED <<closeFlag, shaderVars, ret, setupVars, uniforms, now,
                   frames, counts, drawn, steps, failed, panicVal,
                   nilImageUsed>>

\* gl.Clear(gl.COLOR_BUFFER_BIT | gl.DEPTH_BUFFER_BIT)
Clear ==
    /\ pc = "clear"
    /\ frameOps' = Append(frameOps, <<"Clear", {"COLOR_BUFFER_BIT", "DEPTH_BUFFER_BIT"}>>)
    /\ counts' = [counts EXCEPT !.Clear = @ + 1]
    /\ pc' = "model"
    /\ UNCHANGED <<procVars, closeFlag, shaderVars, ret, setupVars, uniforms,
                   now, frames, drawn, steps, failed, panicVal, nilImageUsed>>

\* The rotation uploaded to the view uniform's location.
UploadModel_WritesView ==
    /\ pc = "model"
    /\ \E t \in now..MaxTime :
         /\ now' = t
         /\ uniforms' = UniformMatrix4fv(uniforms, uniLoc["view"],
                                         <<"HomogRotate3DZ", t - startTime>>)
    /\ frameOps' = Append(frameOps, <<"UniformMatrix4fv", "model">>)
    /\ counts' = [counts EXCEPT !.model = @ + 1]
    /\ pc' = "draw"
    /\ UNCHANGED <<procVars, closeFlag, shaderVars, ret, setupVars, frames,
                   drawn, steps, failed, panicVal, nilImageUsed>>

\* matRot := mgl32.HomogRotate3DZ(float32(glfw.GetTime() - startTime));
\* gl.UniformMatrix4fv(uniModel, 1, false, &matRot[0])
UploadModel ==
    /\ pc = "model"
    /\ \E t \in now..MaxTime :
         /\ now' = t
         /\ uniforms' = UniformMatrix4fv(uniforms, uniLoc["model"],
                                         <<"HomogRotate3DZ", t - startTime>>)
    /\ frameOps' = Append(frameOps, <<"UniformMatrix4fv", "model">>)
    /\ counts' = [counts EXCEPT !.model = @ + 1]
    /\ pc' = "draw"
    /\ UNCHANGED <<procVars, closeFlag, shaderVars, ret, setupVars, frames,
                   drawn, steps, failed, panicVal, nilImageUsed>>

\* The draw call over every record of the table.
Draw_WholeTable ==
    /\ pc = "draw"
    /\ frameOps' = Append(frameOps, <<"DrawArrays", Len(vertices) \div 8>>)
    /\ drawn' = drawn \cup {<<0, Len(vertices) \div 8>>}
    /\ counts' = [counts EXCEPT !.DrawArrays = @ + 1]
    /\ pc' = "swap"
    /\ UNCHANGED <<procVars, closeFlag, shaderVars, ret, setupVars, uniforms,
                   now, frames, steps, failed, panicVal, nilImageUsed>>

\* gl.DrawArrays(gl.TRIANGLES, 0, 36)
Draw ==
    /\ pc = "draw"
    /\ frameOps' = Append(frameOps, <<"DrawArrays", 36>>)
    /\ drawn' = drawn \cup {<<0, 36>>}
    /\ counts' = [counts EXCEPT !.DrawArrays = @ + 1]
    /\ pc' = "swap"
    /\ UNCHANGED <<procVars, closeFlag, shaderVars, ret, setupVars, uniforms,
                   now, frames, steps, failed, panicVal, nilImageUsed>>

\* window.SwapBuffers()
Swap ==
    /\ pc = "swap"
    /\ frameOps' = Append(frameOps, <<"SwapBuffers">>)
    /\ counts' = [counts EXCEPT !.SwapBuffers = @ + 1]
    /\ pc' = "poll"
    /\ UNCHANGED <<procVars, closeFlag, shaderVars, ret, setupVars, uniforms,
                   now, frames, drawn, steps, failed, panicVal, nilImageUsed>>

\* glfw.PollEvents(): the last call of the loop body
Poll ==
    /\ pc = "poll"
    /\ frameOps' = Append(frameOps, <<"PollEvents">>)
    /\ counts' = [counts EXCEPT !.PollEvents = @ + 1]
    /\ frames' = frames + 1
    /\ pc' = "loopTest"
    /\ UNCHANGED <<procVars, closeFlag, shaderVars, ret, setupVars, uniforms,
                   now, drawn, steps, failed, panicVal, nilImageUsed>>

\* The window system sets the window's close flag (the user closes the
\* window).  Nothing in the program clears it.
CloseRequested ==
    /\ pc \notin {"glfwInit", "createWindow", "exited", "panicked"}
    /\ ~closeFlag
    /\ closeFlag' = TRUE
    /\ UNCHANGED <<pc, procVars, shaderVars, ret, setupVars, uniforms, now,
                   loopVars, steps, failed, panicVal, nilImageUsed>>

\* The steps of main(), the single thread of the program.
Program ==
    \/ GlfwInit
    \/ CreateWindow
    \/ GlInit
    \/ CompileVertexShader
    \/ CompileFragmentShader
    \/ LinkProgram
    \/ CheckProgram
    \/ SetupBuffers
    \/ PosAttrib
    \/ ColAttrib
    \/ TexAttrib
    \/ NewTexture
    \/ SetupUniforms
    \/ StartClock
    \/ LoopTest
    \/ Clear
    \/ UploadModel
    \/ Draw
    \/ Swap
    \/ Poll

Next == Program \/ CloseRequested

Spec == Init /\ [][Next]_vars

\* main runs on one thread and every library call returns: a step of main
\* that can be taken is taken.
FairSpec == Spec /\ WF_vars(Program)

\* ---------------------------------------------------------------- claims

Kinds == {VERTEX_SHADER, FRAGMENT_SHADER}

Range(s) == {s[i] : i \in DOMAIN s}

IsBuildOp(s) ==
    s[1] \in {"ReadFile", "CompileShader", "CreateProgram", "LinkProgram"}

\* The operations of newProgram up to the link, in the order of its code.
NewProgramOrder ==
    << <<"ReadFile", VertexShaderFile>>, <<"CompileShader", VERTEX_SHADER>>,
       <<"ReadFile", FragmentShaderFile>>, <<"CompileShader", FRAGMENT_SHADER>>,
       <<"CreateProgram">>, <<"LinkProgram">> >>

\* The calls of one iteration of the render loop, in the order of its code.
FrameOrder ==
    << <<"Clear", {"COLOR_BUFFER_BIT", "DEPTH_BUFFER_BIT"}>>,
       <<"UniformMatrix4fv", "model">>, <<"DrawArrays", 36>>,
       <<"SwapBuffers">>, <<"PollEvents">> >>

BuildSucceeded ==
    /\ compileStatus[VERTEX_SHADER] = "ok"
    /\ compileStatus[FRAGMENT_SHADER] = "ok"
    /\ linkStatus = "ok"

\* C1: newProgram compiles the vertex shader, then the fragment shader, then
\* links, and stops at the first failure: after a failed vertex shader the
\* fragment shader is not compiled, after a failed shader no program object
\* is created and no link is attempted.  It returns a non-zero handle and a
\* nil error exactly when both compilations and the link succeeded, and
\* handle 0 with a non-nil error otherwise.
C1_NewProgramLinear ==
    LET ops == SelectSeq(steps, IsBuildOp)
    IN  /\ IsPrefix(ops, NewProgramOrder)
        /\ compileStatus[VERTEX_SHADER] # "ok" =>
               /\ compileStatus[FRAGMENT_SHADER] = "none"
               /\ \A s \in Range(steps) : s # <<"ReadFile", FragmentShaderFile>>
        /\ (\E k \in Kinds : compileStatus[k] # "ok") =>
               /\ programLive = {}
               /\ linkStatus = "none"
               /\ \A s \in Range(steps) : s[1] \notin {"CreateProgram", "LinkProgram"}
        /\ pc = "checkProgram" =>
               /\ (ret.val # 0 /\ ret.err = Nil) <=> BuildSucceeded
               /\ (ret.val = 0 /\ ret.err # Nil) <=> ~BuildSucceeded
               /\ ~BuildSucceeded => Last(ops) = failed

\* newProgram has returned a program after two compilations and a link.
C1_Witness ==
    /\ pc = "checkProgram"
    /\ ret.val # 0
    /\ BuildSucceeded
    /\ Len(SelectSeq(steps, IsBuildOp)) = 6

\* C2: after a successful newProgram both shader objects have been passed to
\* DeleteShader exactly once, after the link; after a failed newProgram no
\* shader or program object it created is still allocated.
C2_NothingLeftAllocated ==
    pc = "checkProgram" =>
        IF ret.err = Nil
        THEN /\ deleteLog = <<vertexShader, fragmentShader>>
             /\ vertexShader # fragmentShader
             /\ shaderLive = {}
             /\ linkStatus = "ok"
        ELSE /\ shaderLive = {}
             /\ programLive = {}

\* C3: every iteration of the render loop clears the colour and depth
\* buffers, uploads the rotation to the model uniform, draws 36 vertices,
\* swaps and polls, in this order; after N completed iterations DrawArrays
\* has been called N times, each time with count 36, and no swap comes
\* without the draw of its iteration before it.
C3_FrameSequence ==
    /\ IsPrefix(frameOps, FrameOrder)
    /\ pc \in {"loopTest", "exited"} =>
           /\ counts.DrawArrays = frames
           /\ counts.Clear = frames /\ counts.model = frames
           /\ counts.SwapBuffers = frames /\ counts.PollEvents = frames
           /\ frames > 0 => frameOps = FrameOrder
    /\ drawn \subseteq {<<0, 36>>}
    /\ counts.SwapBuffers <= counts.DrawArrays
    /\ pc = "poll" => frameOps[Len(frameOps) - 1] = <<"DrawArrays", 36>>

\* Two iterations have completed.
C3_Witness ==
    /\ pc = "loopTest"
    /\ frames >= 2
    /\ counts.DrawArrays = frames

\* C4: a failed start-up operation (glfw.Init, CreateWindow, gl.Init, a
\* shader file read, a shader compilation, the link, the texture file open,
\* the image decode, the stride test) ends the process before the render
\* loop: nothing is cleared, drawn or swapped in that run and the failed
\* operation is the last start-up operation performed.
C4_StartupFailureAborts ==
    failed # Nil =>
        /\ pc \in {"checkProgram", "panicked"}
        /\ ~InLoop
        /\ counts.Clear = 0 /\ counts.DrawArrays = 0 /\ counts.SwapBuffers = 0
        /\ frames = 0
        /\ Last(steps) = failed

\* The process has ended on a failed image decode.
C4_Witness ==
    /\ pc = "panicked"
    /\ failed = <<"image.Decode">>
    /\ terminateCalls = 1

\* C5 as stated: the error of a failed compilation carries the shader kind
\* together with the driver's diagnostic text.
C5_ErrorCarriesKind ==
    \A k \in Kinds :
        (pc = "checkProgram" /\ failed = <<"CompileShader", k>>) =>
            /\ k \in Range(ret.err)
            /\ SubSeq(ret.err, 4, 3 + Len(infoLog)) = infoLog

\* C5 as amended: the error of a failed compilation carries the name of the
\* source file, not the shader kind, together with the driver's diagnostic
\* text.
C5_ErrorCarriesFileAndLog ==
    \A k \in Kinds :
        (pc = "checkProgram" /\ failed = <<"CompileShader", k>>) =>
            /\ ret.err[1] = "failed to compile "
            /\ ret.err[2] = (IF k = VERTEX_SHADER THEN VertexShaderFile
                             ELSE FragmentShaderFile)
            /\ k \notin Range(ret.err)
            /\ Len(ret.err) = 3 + InfoLogLength(infoLog) + 1
            /\ SubSeq(ret.err, 4, 3 + Len(infoLog)) = infoLog
            /\ \A i \in (4 + Len(infoLog))..Len(ret.err) : ret.err[i] = NUL

\* The fragment shader failed to compile with a diagnostic of the driver.
C5_Witness ==
    /\ pc = "checkProgram"
    /\ failed = <<"CompileShader", FRAGMENT_SHADER>>
    /\ infoLog # <<>>

\* C6: an attribute or uniform name that the linked program does not have
\* ends start-up: the render loop is not entered, and location -1 is never
\* converted to the index 2^32-1 and passed to VertexAttribPointer.
C6_MissingNameAborts ==
    /\ \A a \in AttribNames : attribIdx[a] # <<65535, 65535>>
    /\ InLoop => /\ AttribNames \subseteq activeAttribs
                 /\ UniformNames \subseteq activeUniforms

NextInFrame(p) ==
    CASE p = "clear" -> "model"
      [] p = "model" -> "draw"
      [] p = "draw"  -> "swap"
      [] p = "swap"  -> "poll"
      [] p = "poll"  -> "loopTest"

\* C7: the close flag is read only by the loop test.  A test that finds it
\* set ends the loop with no further clear, upload, draw, swap or poll, and
\* the deferred glfw.Terminate runs; a test that finds it clear starts a
\* frame, and a started frame runs to its end whatever the flag becomes.
\* Once the flag is set (it stays set) the loop terminates.
C7_CloseObservedAtTop ==
    /\ [][ (pc = "loopTest" /\ closeFlag) =>
              /\ pc' = "exited"
              /\ counts' = counts
              /\ terminateCalls' = terminateCalls + 1 ]_vars
    /\ [][ pc # "exited" ]_vars
    /\ [][ (pc = "loopTest" /\ ~closeFlag /\ pc' # pc) => pc' = "clear" ]_vars
    /\ [][ (pc \in {"clear", "model", "draw", "swap", "poll"} /\ pc' # pc) =>
              pc' = NextInFrame(pc) ]_vars
    /\ [][ closeFlag => closeFlag' ]_vars
    /\ [](pc = "clear" => <>(pc = "loopTest" /\ frameOps = FrameOrder))
    /\ []((InLoop /\ closeFlag) => <>(pc = "exited"))

\* The loop has ended on the close flag after a frame in which it was set.
C7_Witness ==
    /\ pc = "exited"
    /\ frames >= 1
    /\ frames < MaxFrames
    /\ terminateCalls = 1

\* C8: the frames write the model uniform and nothing else of the state set
\* up before the loop: the program in use, the view and projection
\* uniforms, the vertex buffer, the attribute arrays and the bound texture
\* are each set by one call before the first iteration and unchanged by
\* every frame, and newProgram is called once.
C8_FramesWriteOnlyModel ==
    /\ []((InLoop \/ pc = "exited") =>
            /\ calls = [newProgram |-> 1, UseProgram |-> 1, BufferData |-> 1,
                        VertexAttribPointer |-> 3, BindTexture |-> 1,
                        view |-> 1, proj |-> 1]
            /\ currentProgram = program
            /\ program \in programLive)
    /\ [][ InLoop =>
              /\ currentProgram' = currentProgram
              /\ programLive' = programLive
              /\ uniforms'["view"] = uniforms["view"]
              /\ uniforms'["proj"] = uniforms["proj"]
              /\ vao' = vao
              /\ bufferSize' = bufferSize
              /\ attribs' = attribs
              /\ texture' = texture
              /\ calls' = calls ]_vars

\* A frame has uploaded a rotation and the view uniform holds its matrix.
C8_Witness ==
    /\ pc = "loopTest"
    /\ frames >= 1
    /\ uniforms["model"] # Nil
    /\ uniforms["view"] = <<"LookAt">>

\* C9: newTexture returns a non-nil error, and binds and uploads no texture,
\* when the image file cannot be opened or decoded; the image is not used
\* after a failed decode.
C9_DecodeFailureReturned ==
    failed \in { <<"os.Open">>, <<"image.Decode">> } =>
        /\ ret.val = 0
        /\ ret.err # Nil
        /\ texture.name = 0
        /\ ~nilImageUsed

\* Float positions of a record that an attribute array reads.
Window(a) == { a.offset \div 4 + i : i \in 0..(a.size - 1) }

\* C10: the upload is 4 bytes for every float of the table, the table is a
\* whole number of 8-float records, the attribute windows (position 0..2,
\* color 3..5, texCoord 6..7) lie in one record and do not overlap, every
\* vertex the draw call reads lies in the buffer, and the records drawn are
\* the first 36 of the table, which holds more.
C10_BufferLayout ==
    calls.BufferData > 0 =>
        /\ bufferSize = 4 * Len(vertices)
        /\ Len(vertices) % 8 = 0
        /\ \A a \in attribs :
               /\ a.stride = 8 * 4
               /\ a.offset % 4 = 0
               /\ Window(a) \subseteq 0..7
               /\ Window(a) = (CASE a.index = Location("position") -> 0..2
                                 [] a.index = Location("color") -> 3..5
                                 [] a.index = Location("texCoord") -> 6..7)
        /\ \A a, b \in attribs : a # b => Window(a) \cap Window(b) = {}
        /\ \A d \in drawn :
               /\ d[1]..(d[1] + d[2] - 1) = 0..35
               /\ \A a \in attribs, v \in d[1]..(d[1] + d[2] - 1) :
                      a.offset + v * a.stride + 4 * a.size <= bufferSize
        /\ Len(vertices) \div 8 > 36

\* The cube has been drawn through the three attribute arrays.
C10_Witness ==
    /\ drawn # {}
    /\ Cardinality(attribs) = 3
    /\ bufferSize > 0
====
